---- MODULE Spec2Model ----
(***************************************************************************)
(* Organic-campaign planning engine of backend/organic_campaign/           *)
(* campaign_service.py: rhythm, themes, stage selection, slot planning,    *)
(* calendar header resolution, weekly batch generation, persistence and    *)
(* rollback.                                                               *)
(*                                                                         *)
(* Dates are day numbers counted from 2024-01-01 (day 0, a Monday), so     *)
(* date.weekday() is the day number modulo 7.  The generative backend and  *)
(* the relational store are the environment: each backend call draws a     *)
(* reply, each store call of the resolver and of the bulk insert may raise.*)
(* A store error raised by the rollback delete is not modelled.            *)
(***************************************************************************)
EXTENDS Integers, Sequences, FiniteSets, TLC

\* ------------------------------------------------------------------ bounds

\* Campaign runs executed one after another on the same store.
MaxRuns == 2

\* Longest platform list of a payload.
MaxPlatforms == 2

\* Longest JSON list the backend answers a rhythm request with.
MaxList == 2

\* ------------------------------------------------------- program constants

chunk_size == 50

DefaultDuration == 30

\* The duration handle_create_organic_campaign passes when its payload
\* names none.
HandlerDefault == 60

\* ---------------------------------------------------------------- helpers

Range(s) == {s[i] : i \in 1..Len(s)}

RECURSIVE SeqSum(_)
SeqSum(s) == IF s = <<>> THEN 0 ELSE Head(s) + SeqSum(Tail(s))

RECURSIVE Flatten(_)
Flatten(ss) == IF ss = <<>> THEN <<>> ELSE Head(ss) \o Flatten(Tail(ss))

\* The sequences over S of length at most n.
SeqsUpTo(S, n) == UNION {[1..k -> S] : k \in 0..n}

RECURSIVE SortedSeq(_)
\* The elements of a finite set of integers in increasing order.
SortedSeq(S) ==
    IF S = {} THEN <<>>
    ELSE LET m == CHOOSE x \in S : \A y \in S : x <= y
         IN <<m>> \o SortedSeq(S \ {m})

\* str.lower() on the names the inputs use.
Lower(platform) ==
    IF platform = "Instagram" THEN "instagram"
    ELSE IF platform = "Sales" THEN "sales"
    ELSE platform

\* ------------------------------------------------------------------ dates

\* Lengths of the months of 2024.
MonthLen == <<31, 29, 31, 30, 31, 30, 31, 31, 30, 31, 30, 31>>

\* Day number of the first day of month m (m = 13: 2025-01-01).
MonthStart(m) == SeqSum(SubSeq(MonthLen, 1, m - 1))

MonthOf(d) == CHOOSE m \in 1..12 : MonthStart(m) <= d /\ d < MonthStart(m + 1)

\* date_obj.strftime("%Y-%m-01"): the first day of the month holding d.
FirstOfMonth(d) == MonthStart(MonthOf(d))

\* date.weekday(): 0 = Monday .. 6 = Sunday.
weekday(d) == d % 7

\* 2024-05-31 (a Friday) and 2024-06-03 (a Monday).
May31 == MonthStart(5) + 30
Jun03 == MonthStart(6) + 2

\* ------------------------------------------------------- backend replies

\* One element of a JSON list: t is its JSON type, n its numeric value
\* (true = 1, false = 0; n is unused for strings).
Elem(t, n) == [t |-> t, n |-> n]

\* A JSON document: kind is "list", "dict", "scalar" or "invalid" (text
\* that is no JSON); items are a list's elements, map an object's members
\* as a set of [key, val].
Doc(kind, items, map) == [kind |-> kind, items |-> items, map |-> map]

ListDoc(items) == Doc("list", items, {})

DictDoc(map) == Doc("dict", <<>>, map)

EmptyDict == DictDoc({})

\* A backend call: it raises, or returns a message whose content is None
\* or a text holding the document, possibly inside a ```json fence and
\* possibly with other words around it.
Reply(raises, none, fence, chatter, doc) ==
    [raises |-> raises, none |-> none, fence |-> fence,
     chatter |-> chatter, doc |-> doc]

Raises == Reply(TRUE, FALSE, FALSE, FALSE, EmptyDict)

Says(doc) == Reply(FALSE, FALSE, FALSE, FALSE, doc)

\* clean_and_parse_json: the fences are stripped; a text that is exactly a
\* JSON document parses to it; otherwise the first {...} or [...] of the
\* text is parsed; None, text that is no JSON and a scalar among other
\* words give {}.
clean_and_parse_json(r) ==
    IF r.none THEN EmptyDict
    ELSE IF r.doc.kind = "invalid" THEN EmptyDict
    ELSE IF ~r.chatter THEN r.doc
    ELSE IF r.doc.kind \in {"list", "dict"} THEN r.doc
    ELSE EmptyDict

\* isinstance(x, int): Python's bool is a subclass of int.
IsInt(e) == e.t \in {"int", "bool"}

IsStr(e) == e.t = "str"

\* ---------------------------------------------------------------- rhythm

StaticRhythm(frequency) ==
    IF frequency = "high" THEN <<0, 1, 2, 3, 4>>
    ELSE IF frequency = "low" THEN <<0, 3>>
    ELSE <<0, 2, 4>>

\* What a call gives its caller: a value, or an exception leaving it.
Ret(v) == [raised |-> FALSE, value |-> v]

Exc == [raised |-> TRUE, value |-> <<>>]

\* The request made outside the try block: its exception leaves the call.
generate_smart_rhythm_noexcept(frequency, client, r) ==
    IF ~client THEN Ret(StaticRhythm(frequency))
    ELSE IF r.raises THEN Exc
    ELSE LET parsed == clean_and_parse_json(r)
         IN IF parsed.kind = "list" /\ \A i \in 1..Len(parsed.items) : IsInt(parsed.items[i])
            THEN Ret([i \in 1..Len(parsed.items) |-> parsed.items[i].n])
            ELSE Ret(StaticRhythm(frequency))

\* generate_smart_rhythm: client is whether openai_client is set, r the
\* backend's reply; every exception of the request and of the parsing is
\* caught inside.
generate_smart_rhythm(frequency, client, r) ==
    IF ~client THEN Ret(StaticRhythm(frequency))
    ELSE IF r.raises THEN Ret(StaticRhythm(frequency))
    ELSE LET parsed == clean_and_parse_json(r)
         IN IF parsed.kind = "list" /\ \A i \in 1..Len(parsed.items) : IsInt(parsed.items[i])
            THEN Ret([i \in 1..Len(parsed.items) |-> parsed.items[i].n])
            ELSE Ret(StaticRhythm(frequency))

\* ---------------------------------------------------------------- themes

\* A theme string: "Focus: <goals>", "Week <n>", or the backend's n-th text.
Theme(label, n) == [label |-> label, n |-> n]

\* generate_weekly_themes(num, goals_str, context).
generate_weekly_themes(num, client, r) ==
    IF ~client THEN [i \in 1..num |-> Theme("Focus", 0)]
    ELSE IF r.raises THEN [i \in 1..num |-> Theme("Week", i)]
    ELSE LET parsed == clean_and_parse_json(r)
         IN IF parsed.kind = "list" /\ \A i \in 1..Len(parsed.items) : IsStr(parsed.items[i])
            THEN [i \in 1..Len(parsed.items) |-> Theme("ai", parsed.items[i].n)]
            ELSE [i \in 1..num |-> Theme("Week", i)]

\* ---------------------------------------------------------------- stages

\* goal_weights, in hundredths: <<Top, Middle, Bottom>>.
goal_weights(g) ==
    IF g = "brand_awareness" THEN <<70, 20, 10>>
    ELSE IF g = "leads" THEN <<30, 40, 30>>
    ELSE IF g = "sales" THEN <<15, 35, 50>>
    ELSE IF g = "community" THEN <<40, 20, 40>>
    ELSE <<>>

TopStages == <<"hook", "pain", "reframe">>
MiddleStages == <<"mechanism", "proof">>
BottomStages == <<"objection", "cta", "retention">>

\* random.choice(seq) with the draw u / 100.
Choice(seq, u) == seq[(u * Len(seq)) \div 100 + 1]

\* The comparisons made with <= instead of <.
select_stage_for_day_inclusive(goals, r, u) ==
    LET known == SelectSeq(goals, LAMBDA g : goal_weights(Lower(g)) # <<>>)
        count == Len(known)
        t_sum == SeqSum([i \in 1..count |-> goal_weights(Lower(known[i]))[1]])
        m_sum == SeqSum([i \in 1..count |-> goal_weights(Lower(known[i]))[2]])
        top == IF count = 0 THEN r <= 33 ELSE r * count <= t_sum
        mid == IF count = 0 THEN r <= 33 + 34 ELSE r * count <= t_sum + m_sum
    IN IF top THEN Choice(TopStages, u)
       ELSE IF mid THEN Choice(MiddleStages, u)
       ELSE Choice(BottomStages, u)

\* select_stage_for_day(goals, context) with random.random() = r / 100
\* and the draw u / 100 inside random.choice; a goal is looked up as
\* str(g).lower().
select_stage_for_day(goals, r, u) ==
    LET known == SelectSeq(goals, LAMBDA g : goal_weights(Lower(g)) # <<>>)
        count == Len(known)
        t_sum == SeqSum([i \in 1..count |-> goal_weights(Lower(known[i]))[1]])
        m_sum == SeqSum([i \in 1..count |-> goal_weights(Lower(known[i]))[2]])
        \* r < avg_t and r < avg_t + avg_m, multiplied through by count
        top == IF count = 0 THEN r < 33 ELSE r * count < t_sum
        mid == IF count = 0 THEN r < 33 + 34 ELSE r * count < t_sum + m_sum
    IN IF top THEN Choice(TopStages, u)
       ELSE IF mid THEN Choice(MiddleStages, u)
       ELSE Choice(BottomStages, u)

\* ------------------------------------------------------------ slot planner

\* calendar_map is a dict in insertion order: a sequence of [plat, id]
\* with distinct plat.
HasKey(calendar_map, plat) == \E i \in 1..Len(calendar_map) : calendar_map[i].plat = plat

Lookup(calendar_map, plat) ==
    calendar_map[CHOOSE i \in 1..Len(calendar_map) : calendar_map[i].plat = plat].id

\* calendar_map[plat] = cal_id
SetKey(calendar_map, plat, id) ==
    IF HasKey(calendar_map, plat)
    THEN [i \in 1..Len(calendar_map) |->
            IF calendar_map[i].plat = plat THEN [plat |-> plat, id |-> id] ELSE calendar_map[i]]
    ELSE Append(calendar_map, [plat |-> plat, id |-> id])

\* A loop that keeps every date, whatever its weekday.
EligibleDates_any(start_date, end_date, schedule_days) ==
    SortedSeq(start_date..end_date)

\* The dates the while loop keeps: current from start_date while
\* current <= end_date, with current.weekday() in schedule_days.
EligibleDates(start_date, end_date, schedule_days) ==
    SortedSeq({d \in start_date..end_date : weekday(d) \in Range(schedule_days)})

\* The first theme taken for every week.
ThemeAt_first(themes, week_idx) == themes[1]

\* themes[min(week_idx, len(themes) - 1)] raises IndexError on an empty list.
ThemeAt(themes, week_idx) ==
    themes[(IF week_idx < Len(themes) - 1 THEN week_idx ELSE Len(themes) - 1) + 1]

\* The tasks appended for one eligible date, one per entry of platforms
\* that is a key of calendar_map.
TasksOn(d, stage, theme, platforms, calendar_map) ==
    LET kept == SelectSeq(platforms, LAMBDA p : HasKey(calendar_map, p))
    IN [i \in 1..Len(kept) |->
          [date |-> d, stage |-> stage, theme |-> theme, platform |-> kept[i],
           calendar_id |-> Lookup(calendar_map, kept[i])]]

\* weekly_batches after the loop, in insertion order: one
\* [week_idx, tasks] per week that got a task.  stageOf[d] is the stage
\* drawn for date d.
PlanSlots(start_date, end_date, schedule_days, themes, platforms, calendar_map, stageOf) ==
    LET dates == EligibleDates(start_date, end_date, schedule_days)
        WeekOf(d) == (d - start_date) \div 7
        weeks == SortedSeq({WeekOf(dates[i]) : i \in 1..Len(dates)})
        DatesOf(w) == SelectSeq(dates, LAMBDA d : WeekOf(d) = w)
    IN [k \in 1..Len(weeks) |->
          [week_idx |-> weeks[k],
           tasks |-> Flatten([j \in 1..Len(DatesOf(weeks[k])) |->
                        TasksOn(DatesOf(weeks[k])[j], stageOf[DatesOf(weeks[k])[j]],
                                ThemeAt(themes, weeks[k]), platforms, calendar_map)])]]

\* The loop raises exactly when it reaches an eligible date with no theme.
PlanRaises(start_date, end_date, schedule_days, themes) ==
    EligibleDates(start_date, end_date, schedule_days) # <<>> /\ themes = <<>>

\* --------------------------------------------------------- batch content

\* f"{platform}_{stage}_{date.isoformat()}": stage holds no underscore and
\* the date none either, so the string determines the triple.
Key(task) == <<task.platform, task.stage, task.date>>

\* generate_weekly_content_batch: the mapping returned for one week, as a
\* set of [key, val]; val is "full" (an object with the six fields),
\* "partial" (a non-empty object lacking some), "emptyobj" ({}) or
\* "nondict".
generate_weekly_content_batch(client, r) ==
    IF ~client THEN {}
    ELSE IF r.raises THEN {}
    ELSE LET parsed == clean_and_parse_json(r)
         IN IF parsed.kind = "dict" THEN parsed.map ELSE {}

\* content_map.get(key, {})
Get(content_map, key) ==
    IF \E e \in content_map : e.key = key
    THEN (CHOOSE e \in content_map : e.key = key).val
    ELSE "emptyobj"

\* The test with its second "not" dropped.
Usable_inverted(val) == val = "emptyobj"

\* not (not isinstance(data, dict) or not data)
Usable(val) == val \in {"full", "partial"}

\* The record appended to entries_to_insert for a task with content val.
EntryOf(task, user_id, val) ==
    [calendar_id |-> task.calendar_id, user_id |-> user_id,
     entry_date |-> task.date, platform |-> task.platform,
     campaign_phase |-> task.stage, intent_type |-> task.stage,
     weekly_theme |-> task.theme, content_theme |-> task.theme,
     status |-> "planned", metadata |-> val]

\* The entries one week adds: one per task whose key has usable content.
WeekEntries(tasks, user_id, content_map) ==
    LET kept == SelectSeq(tasks, LAMBDA t : Usable(Get(content_map, Key(t))))
    IN [i \in 1..Len(kept) |-> EntryOf(kept[i], user_id, Get(content_map, Key(kept[i])))]

\* ----------------------------------------------------------- header store

\* The id a failed resolution returns (None).
NoId == 0

\* The select with the platform compared as given, not lower-cased.
Existing_raw(hs, user_id, platform, date_obj) ==
    {h \in hs : /\ h.user_id = user_id
                /\ h.platform = platform
                /\ h.calendar_month >= FirstOfMonth(date_obj)
                /\ h.calendar_month < FirstOfMonth(date_obj + 32)}

\* The rows the select of resolve_or_create_calendar returns: those of
\* (user_id, platform.lower()) with calendar_month >= the first of
\* date_obj's month and < the first of the month of date_obj + 32 days.
Existing(hs, user_id, platform, date_obj) ==
    {h \in hs : /\ h.user_id = user_id
                /\ h.platform = Lower(platform)
                /\ h.calendar_month >= FirstOfMonth(date_obj)
                /\ h.calendar_month < FirstOfMonth(date_obj + 32)}

\* The row inserted when the select returns nothing.
NewHeader(id, user_id, platform, date_obj, freq) ==
    [id |-> id, user_id |-> user_id, platform |-> Lower(platform),
     calendar_month |-> FirstOfMonth(date_obj), frequency |-> freq]

\* The except clause returning an id instead of None.
resolve_or_create_calendar_stale(hs, nid, db, fault, first, user_id, platform, date_obj, freq) ==
    IF ~db THEN
        [cal_id |-> NoId, created |-> FALSE, headers |-> hs, calls |-> <<>>]
    ELSE IF fault THEN
        [cal_id |-> nid, created |-> FALSE, headers |-> hs, calls |-> <<>>]
    ELSE IF Existing(hs, user_id, platform, date_obj) # {} THEN
        [cal_id |-> first.id, created |-> FALSE,
         headers |-> (hs \ {first}) \cup {[first EXCEPT !.frequency = freq]},
         calls |-> <<[op |-> "select", id |-> NoId], [op |-> "update", id |-> first.id]>>]
    ELSE
        [cal_id |-> nid, created |-> TRUE,
         headers |-> hs \cup {NewHeader(nid, user_id, platform, date_obj, freq)},
         calls |-> <<[op |-> "select", id |-> NoId], [op |-> "insert", id |-> nid]>>]

\* resolve_or_create_calendar on store rows hs with next fresh id nid:
\* db is whether the supabase client is set, fault whether the store call
\* raises, first the row existing.data[0] (the select states no order).
\* The result is the pair returned, the rows afterwards and the store
\* calls made.
resolve_or_create_calendar(hs, nid, db, fault, first, user_id, platform, date_obj, freq) ==
    IF ~db THEN
        [cal_id |-> NoId, created |-> FALSE, headers |-> hs, calls |-> <<>>]
    ELSE IF fault THEN
        [cal_id |-> NoId, created |-> FALSE, headers |-> hs, calls |-> <<>>]
    ELSE IF Existing(hs, user_id, platform, date_obj) # {} THEN
        [cal_id |-> first.id, created |-> FALSE,
         headers |-> (hs \ {first}) \cup {[first EXCEPT !.frequency = freq]},
         calls |-> <<[op |-> "select", id |-> NoId], [op |-> "update", id |-> first.id]>>]
    ELSE
        [cal_id |-> nid, created |-> TRUE,
         headers |-> hs \cup {NewHeader(nid, user_id, platform, date_obj, freq)},
         calls |-> <<[op |-> "select", id |-> NoId], [op |-> "insert", id |-> nid]>>]

\* ------------------------------------------------------------------ state

VARIABLES
    openai_client,      \* whether OPENAI_API_KEY gave a backend client
    supabase,           \* whether the store client is set
    headers,            \* rows of social_media_calendars
    entries,            \* rows of calendar_entries, in insertion order
    nextId,             \* the id the store gives the next header
    pc,                 \* where create_organic_campaign_manual stands
    runs,               \* runs started so far
    req,                \* the payload of the current run
    pi,                 \* index in platforms of the next one to resolve
    calendar_map,
    newly_created_ids,
    schedule_days,
    themes,
    weekly_batches,
    wi,                 \* position in weekly_batches of the next week
    entries_to_insert,
    ci,                 \* i of the next chunk
    result,             \* what the run returned
    ops,                \* store and backend calls the run made, in order
    replies,            \* the backend's reply to each week's request
    requests,           \* the content requests sent to the backend, in order
    pre_headers,        \* the header rows when the run began
    pre_entries,        \* the entry rows when the run began
    faulted,            \* for each resolver call, whether it met a store error
    via,                \* who called the run: "direct" or "handler"
    state,              \* what handle_create_organic_campaign left on state
    race,               \* the resolver calls that run side by side
    fn_in,              \* arguments of the last direct call of a helper
    fn_out              \* what that call returned

vars == <<openai_client, supabase, headers, entries, nextId, pc, runs, req, pi,
          calendar_map, newly_created_ids, schedule_days, themes, weekly_batches,
          wi, entries_to_insert, ci, result, ops, replies, requests, pre_headers,
          pre_entries, faulted, via, state, race, fn_in, fn_out>>

config == <<openai_client, supabase>>
store == <<headers, entries, nextId>>
locals == <<calendar_map, newly_created_ids, schedule_days, themes, weekly_batches,
            wi, entries_to_insert, ci>>
history == <<replies, requests, pre_headers, pre_entries, faulted>>
caller == <<via, state>>
fnvars == <<fn_in, fn_out>>
runvars == <<pc, runs, req, pi, locals, result, ops, history, caller>>

\* ----------------------------------------------------------------- inputs

PlatformNames == {"instagram", "Instagram", "facebook"}

StartDates == {May31, Jun03}

NoEnd == [kind |-> "none", d |-> 0]

\* An end_date that is no "%Y-%m-%d" date.
BadEnd == [kind |-> "bad", d |-> 0]

GivenEnd(d) == [kind |-> "date", d |-> d]

Payload(u, ps, s, e, dd, f) ==
    [user_id |-> u, platforms |-> ps, start_date |-> s, end_date |-> e,
     duration_days |-> dd, frequency |-> f, goals |-> <<"sales">>]

\* state.user_id and the keys of state.payload the handler reads; "" and 0
\* stand for an absent key.
HandlerInput(u, conf, cg, plat, dd, du, dy, e, f) ==
    [user_id |-> u, confirm_generation |-> conf, campaign_goal |-> cg, platform |-> plat,
     duration_days |-> dd, duration |-> du, days |-> dy, end_date |-> e, frequency |-> f]

\* Payloads of a single run: any platform list; seven days by
\* duration_days, or an explicit end_date three days after the start.
RichPayloads ==
    UNION {{Payload(u, ps, s, e, 7, f) :
                u \in {"", "u1"}, ps \in SeqsUpTo(PlatformNames, MaxPlatforms),
                f \in {"low", "medium"}, e \in {NoEnd, GivenEnd(s + 3)}} :
           s \in StartDates}

\* Payloads of runs that follow one another: two users, three lists, an
\* explicit end_date three days after the start; and one without user_id,
\* one without platforms and one whose end_date is before its start.
LeanPayloads ==
    {Payload(u, ps, s, GivenEnd(s + 3), 7, f) :
        u \in {"u1", "u2"},
        ps \in {<<"Instagram">>, <<"instagram", "instagram">>, <<"instagram", "facebook">>},
        s \in StartDates, f \in {"low", "medium"}}
    \cup {Payload("", <<"instagram">>, Jun03, GivenEnd(Jun03 + 3), 7, "low"),
          Payload("u1", <<>>, Jun03, GivenEnd(Jun03 + 3), 7, "low"),
          Payload("u1", <<"instagram", "facebook">>, Jun03, GivenEnd(Jun03 - 3), 7, "low")}

\* What the handler finds on state, by today's date: with or without
\* user, platform and confirmation, for seven days.
RichInputs ==
    [today \in StartDates |->
        {HandlerInput(u, conf, "sales", plat, 7, 0, 0, NoEnd, "low") :
            u \in {"", "u1"}, conf \in {"yes", "no"}, plat \in {"", "instagram"}}]

\* A confirmed and an unconfirmed state of one user.
LeanInputs ==
    [today \in StartDates |->
        {HandlerInput("u1", conf, "sales", "instagram", 0, 0, 0, GivenEnd(today + 3), "low") :
            conf \in {"yes", "no"}}]

FullMap(tasks) == {[key |-> Key(tasks[i]), val |-> "full"] : i \in 1..Len(tasks)}

\* A reply to a week's content request, by kind: an exception, text that
\* is no JSON, a JSON list, an object covering every task, an object
\* covering the first task only.
BatchReply(kind, tasks) ==
    IF kind = "raise" THEN Raises
    ELSE IF kind = "invalid" THEN Says(Doc("invalid", <<>>, {}))
    ELSE IF kind = "list" THEN Says(ListDoc(<<Elem("str", 1)>>))
    ELSE IF kind = "full" THEN Says(DictDoc(FullMap(tasks)))
    ELSE Says(DictDoc(FullMap(SubSeq(tasks, 1, 1))))

\* What the environment of a specification draws from: the payloads, the
\* replies to the rhythm and theme requests, the pairs of random draws (in
\* hundredths) of a stage, the kinds of reply to a content request,
\* whether a store call may raise, and whether runs follow one another.
Rich ==
    [payloads |-> RichPayloads,
     rhythm |-> {Raises, Says(ListDoc(<<>>))},
     themes |-> {Raises, Says(ListDoc(<<>>))},
     draws |-> {<<20, 0>>, <<90, 99>>},
     batch |-> {"raise", "invalid", "list", "full", "first"},
     faults |-> BOOLEAN,
     again |-> FALSE,
     states |-> RichInputs]

Lean ==
    [payloads |-> LeanPayloads,
     rhythm |-> {Raises, Says(ListDoc(<<>>))},
     themes |-> {Raises},
     draws |-> {<<20, 0>>},
     batch |-> {"raise", "full"},
     faults |-> {FALSE},
     again |-> TRUE,
     states |-> LeanInputs]

\* ------------------------------------------------------------ the request

\* Lines 386-399: duration and end_date from the payload's keys.  A key
\* that is absent is 0 (a value of 0 is falsy as well); end_date_val is
\* absent, a date, or a text strptime rejects.
manual_range(start_date, end_date_val, duration_days, duration, days) ==
    IF end_date_val.kind = "date" THEN
        [duration |-> end_date_val.d - start_date, end_date |-> end_date_val.d]
    ELSE LET dur == IF duration_days # 0 THEN duration_days
                    ELSE IF duration # 0 THEN duration
                    ELSE IF days # 0 THEN days
                    ELSE DefaultDuration
         IN [duration |-> dur, end_date |-> start_date + dur]

\* The payloads of the runs carry neither "duration" nor "days".
duration_of(p) ==
    manual_range(p.start_date, p.end_date, p.duration_days, 0, 0).duration

end_date_of(p) ==
    manual_range(p.start_date, p.end_date, p.duration_days, 0, 0).end_date

Error(msg) == [kind |-> "error", error |-> msg, post_count |-> 0, calendar_id |-> NoId]

Success(n, id, ths) ==
    [kind |-> "success", error |-> "", post_count |-> n, calendar_id |-> id,
     weekly_themes |-> ths]

Raised == [kind |-> "raised", error |-> "", post_count |-> 0, calendar_id |-> NoId]

NoResult == [kind |-> "none", error |-> "", post_count |-> 0, calendar_id |-> NoId]

NoPayload == Payload("", <<>>, Jun03, NoEnd, 0, "medium")

Call(op, id) == [op |-> op, id |-> id]

\* A state object nobody filled.
NoInput == HandlerInput("", "", "", "", 0, 0, 0, NoEnd, "")

\* The state object of the handler: what it was given (input) and the
\* fields the handler writes.
NoState ==
    [input |-> NoInput, result |-> "", error |-> "", calendar_id |-> NoId,
     posts |-> 0, themes |-> 0]

Cancelled(st) ==
    [NoState EXCEPT !.input = st, !.result = "Campaign generation cancelled."]

\* Lines 520-546: the payload the handler calls the run with.
handler_payload(st, today) ==
    LET duration_val == IF st.duration_days # 0 THEN st.duration_days
                        ELSE IF st.duration # 0 THEN st.duration
                        ELSE IF st.days # 0 THEN st.days
                        ELSE HandlerDefault
    IN [user_id |-> st.user_id,
        platforms |-> IF st.platform # "" THEN <<st.platform>> ELSE <<>>,
        start_date |-> today, end_date |-> st.end_date, duration_days |-> duration_val,
        frequency |-> IF st.frequency = "" THEN "medium" ELSE st.frequency,
        goals |-> <<IF st.campaign_goal = "" THEN "brand_awareness" ELSE st.campaign_goal>>]

NoCall == [fn |-> "none"]

\* The two callers whose resolver calls may interleave.
Callers == 1..2

\* A resolver call that has not begun.
NoResolve ==
    [at |-> "idle", user_id |-> "", platform |-> "", date_obj |-> Jun03,
     seen |-> {}, cal_id |-> NoId, created |-> FALSE]

\* ------------------------------------------------------------------- Init

Init ==
    /\ openai_client \in BOOLEAN
    /\ supabase \in BOOLEAN
    /\ headers = {}
    /\ entries = <<>>
    /\ nextId = 1
    /\ pc = "idle"
    /\ runs = 0
    /\ req = NoPayload
    /\ pi = 1
    /\ calendar_map = <<>>
    /\ newly_created_ids = <<>>
    /\ schedule_days = <<>>
    /\ themes = <<>>
    /\ weekly_batches = <<>>
    /\ wi = 1
    /\ entries_to_insert = <<>>
    /\ ci = 0
    /\ result = NoResult
    /\ ops = <<>>
    /\ replies = <<>>
    /\ requests = <<>>
    /\ pre_headers = {}
    /\ pre_entries = <<>>
    /\ faulted = <<>>
    /\ via = "direct"
    /\ state = NoState
    /\ race = [c \in Callers |-> NoResolve]
    /\ fn_in = NoCall
    /\ fn_out = NoCall

\* ---------------------------------------------------------------- actions

\* The store calls of lines 364-407 for payload p: the business context
\* is fetched after the checks of user_id and of the platform list.
EntryOps_early(db, p) ==
    IF p.user_id = "" THEN <<>>
    ELSE IF db THEN <<Call("profile", NoId)>> ELSE <<>>

EntryOps(db, p) ==
    IF p.user_id = "" THEN <<>>
    ELSE IF p.platforms = <<>> THEN <<>>
    ELSE IF db THEN <<Call("profile", NoId)>> ELSE <<>>

\* A run may start: none is under way, and the runs of a specification
\* that lets them follow one another are not used up.
MayStart(env) ==
    \/ pc = "idle"
    \/ pc = "done" /\ env.again /\ runs < MaxRuns

\* The locals of a run before its first statement.
Fresh ==
    /\ runs' = runs + 1
    /\ pi' = 1
    /\ calendar_map' = <<>>
    /\ newly_created_ids' = <<>>
    /\ schedule_days' = <<>>
    /\ themes' = <<>>
    /\ weekly_batches' = <<>>
    /\ wi' = 1
    /\ entries_to_insert' = <<>>
    /\ ci' = 0
    /\ replies' = <<>>
    /\ requests' = <<>>
    /\ pre_headers' = headers
    /\ pre_entries' = entries
    /\ faulted' = <<>>

\* create_organic_campaign_manual, lines 364-407, on payload p: a missing
\* user_id or an empty platform list returns at once; otherwise the
\* business context is fetched.
Enter(p) ==
    /\ req' = p
    /\ IF p.user_id = "" THEN
           /\ result' = Error("Missing user_id")
           /\ pc' = "done"
       ELSE IF p.platforms = <<>> THEN
           /\ result' = Error("No platforms provided.")
           /\ pc' = "done"
       ELSE
           /\ result' = NoResult
           /\ pc' = "resolve"
    /\ ops' = EntryOps(supabase, p)
    /\ Fresh

\* What the handler leaves on state once the run has ended with res.
handler_state(st, res, ths) ==
    IF res.kind = "error" THEN [st EXCEPT !.error = res.error]
    ELSE IF res.kind = "raised" THEN [st EXCEPT !.error = "str(e)"]
    ELSE [st EXCEPT !.result = "Campaign Ready!", !.calendar_id = res.calendar_id,
                    !.posts = res.post_count, !.themes = Len(ths)]

\* state after a step of a run called by v that leaves the run at pcn
\* with result res.
StateAfter(v, pcn, res, ths, st) ==
    IF v = "handler" /\ pcn = "done" THEN handler_state(st, res, ths) ELSE st

\* A direct call of create_organic_campaign_manual.
Begin(env) ==
    /\ MayStart(env)
    /\ \E p \in env.payloads : Enter(p)
    /\ via' = "direct"
    /\ state' = NoState
    /\ UNCHANGED <<config, race, store, fnvars>>

\* handle_create_organic_campaign, lines 511-548: without the confirmation
\* it returns the cancellation; otherwise it calls the run with the
\* payload it builds, today being the start date.
Handle(env) ==
    /\ MayStart(env)
    /\ \E today \in StartDates : \E st \in env.states[today] :
        IF st.confirm_generation # "yes" THEN
            /\ state' = Cancelled(st)
            /\ result' = NoResult
            /\ pc' = "done"
            /\ ops' = <<>>
            /\ req' = NoPayload
            /\ Fresh
        ELSE
            /\ Enter(handler_payload(st, today))
            /\ state' = StateAfter("handler", pc', result', <<>>, [NoState EXCEPT !.input = st])
    /\ via' = "handler"
    /\ UNCHANGED <<config, race, store, fnvars>>

\* Lines 409-428: one turn of the loop over platforms, and after the last
\* one the check that some header was resolved.
ResolveStep(env) ==
    /\ pc = "resolve"
    /\ \E fault \in env.faults :
       \E first \in Existing(headers, req.user_id, req.platforms[pi], req.start_date)
                    \cup {NewHeader(NoId, "", "", req.start_date, "")} :
        LET plat == req.platforms[pi]
            found == Existing(headers, req.user_id, plat, req.start_date)
            res == resolve_or_create_calendar(headers, nextId, supabase, fault, first,
                       req.user_id, plat, req.start_date, req.frequency)
            map == IF res.cal_id # NoId THEN SetKey(calendar_map, plat, res.cal_id)
                   ELSE calendar_map
        IN /\ (first \in found) = (found # {})
           /\ headers' = res.headers
           /\ nextId' = IF res.created THEN nextId + 1 ELSE nextId
           /\ ops' = ops \o res.calls
           /\ calendar_map' = map
           /\ newly_created_ids' =
                 IF res.cal_id # NoId /\ res.created
                 THEN Append(newly_created_ids, res.cal_id) ELSE newly_created_ids
           /\ pi' = pi + 1
           /\ faulted' = Append(faulted, supabase /\ fault)
           /\ IF pi < Len(req.platforms) THEN
                  /\ pc' = "resolve"
                  /\ result' = result
              ELSE IF map = <<>> THEN
                  /\ pc' = "done"
                  /\ result' = Error("Failed to initialize headers.")
              ELSE
                  /\ pc' = "plan"
                  /\ result' = result
    /\ UNCHANGED <<config, race, entries, runs, req, schedule_days, themes, weekly_batches,
                   wi, entries_to_insert, ci, replies, requests, pre_headers, pre_entries,
                   via, fnvars>>
    /\ state' = StateAfter(via, pc', result', themes, state)

\* Lines 430-456: rhythm, themes and the slot loop.
PlanStep(env) ==
    /\ pc = "plan"
    /\ \E r1 \in env.rhythm, r2 \in env.themes :
        LET days == generate_smart_rhythm(req.frequency, openai_client, r1).value
            ths == generate_weekly_themes(duration_of(req) \div 7 + 2, openai_client, r2)
            dates == EligibleDates(req.start_date, end_date_of(req), days)
            stages == {select_stage_for_day(req.goals, d[1], d[2]) : d \in env.draws}
        IN /\ schedule_days' = days
           /\ themes' = ths
           /\ ops' = ops \o (IF openai_client
                             THEN <<Call("rhythm", NoId), Call("themes", NoId)>> ELSE <<>>)
           /\ IF PlanRaises(req.start_date, end_date_of(req), days, ths) THEN
                  /\ weekly_batches' = <<>>
                  /\ result' = Raised
                  /\ pc' = "done"
              ELSE
                  /\ \E stageOf \in [Range(dates) -> stages] :
                        weekly_batches' = PlanSlots(req.start_date, end_date_of(req), days,
                                              ths, req.platforms, calendar_map, stageOf)
                  /\ result' = result
                  /\ pc' = IF dates = <<>> THEN "finish" ELSE "generate"
    /\ UNCHANGED <<config, race, store, runs, req, pi, calendar_map, newly_created_ids, wi,
                   entries_to_insert, ci, history, via, fnvars>>
    /\ state' = StateAfter(via, pc', result', themes', state)

\* week_theme = tasks[0]["theme"]: the theme a week's request is made with.
week_theme(tasks) == tasks[1].theme

\* A request that lists the key of the week's first task only.
Request_head(week_idx, tasks) ==
    [week_idx |-> week_idx, theme |-> week_theme(tasks), keys |-> <<Key(tasks[1])>>]

\* The request generate_weekly_content_batch sends for one week: its
\* theme and request_list, the keys of the tasks in order.
Request(week_idx, tasks) ==
    [week_idx |-> week_idx, theme |-> week_theme(tasks),
     keys |-> [i \in 1..Len(tasks) |-> Key(tasks[i])]]

\* Lines 459-488: one week of the loop over weekly_batches: the request
\* and the entries built from its content mapping.
GenerateStep(env) ==
    /\ pc = "generate"
    /\ \E kind \in env.batch :
        LET tasks == weekly_batches[wi].tasks
            r == BatchReply(kind, tasks)
            content_map == generate_weekly_content_batch(openai_client, r)
        IN /\ entries_to_insert' =
                 entries_to_insert \o WeekEntries(tasks, req.user_id, content_map)
           /\ replies' = IF openai_client THEN Append(replies, r) ELSE replies
           /\ requests' = IF openai_client
                          THEN Append(requests, Request(weekly_batches[wi].week_idx, tasks))
                          ELSE requests
           /\ ops' = IF openai_client
                     THEN Append(ops, Call("generate", weekly_batches[wi].week_idx))
                     ELSE ops
    /\ wi' = wi + 1
    /\ pc' = IF wi < Len(weekly_batches) THEN "generate" ELSE "finish"
    /\ UNCHANGED <<config, race, store, runs, req, pi, calendar_map, newly_created_ids,
                   schedule_days, themes, weekly_batches, ci, result, pre_headers,
                   pre_entries, faulted, caller, fnvars>>

\* A cleanup loop that returns from inside its first turn.
RollbackIds_first == SubSeq(newly_created_ids, 1, 1)

\* A cleanup loop over every resolved header.
RollbackIds_all == [i \in 1..Len(calendar_map) |-> calendar_map[i].id]

\* The ids the cleanup loop of lines 492-493 deletes, in order.
RollbackIds == newly_created_ids

\* Lines 490-494: with no entry built, the headers created by this run are
\* deleted and the run returns the failure.
FinishStep ==
    /\ pc = "finish"
    /\ IF entries_to_insert = <<>> THEN
           /\ headers' = {h \in headers : h.id \notin Range(RollbackIds)}
           /\ ops' = ops \o [i \in 1..Len(RollbackIds) |-> Call("delete", RollbackIds[i])]
           /\ result' = Error("AI generation failed.")
           /\ pc' = "done"
       ELSE
           /\ pc' = "insert"
           /\ UNCHANGED <<headers, ops, result>>
    /\ UNCHANGED <<config, race, entries, nextId, runs, req, pi, locals, history, via, fnvars>>
    /\ state' = StateAfter(via, pc', result', themes, state)

\* The id of the header resolved last.
LastValue(cmap) == cmap[Len(cmap)].id

\* list(calendar_map.values())[0]
FirstValue(cmap) == cmap[1].id

\* The exception of a chunk's insert caught and turned into an error result.
InsertFailure_caught == Error("Insert failed.")

\* How the run ends when a chunk's insert raises: nothing catches it.
InsertFailure == Raised

\* A slice that stops one record short of the next chunk's first.
Chunk_short(list, i) ==
    SubSeq(list, i + 1, IF i + chunk_size - 1 < Len(list) THEN i + chunk_size - 1 ELSE Len(list))

\* entries_to_insert[i : i + chunk_size]
Chunk(list, i) ==
    SubSeq(list, i + 1, IF i + chunk_size < Len(list) THEN i + chunk_size ELSE Len(list))

\* Lines 496-506: one chunk of the bulk insert, which may raise, and after
\* the last chunk the success result.
InsertStep(env) ==
    /\ pc = "insert"
    /\ \E fault \in env.faults :
        LET last == IF ci + chunk_size < Len(entries_to_insert)
                    THEN ci + chunk_size ELSE Len(entries_to_insert)
            chunk == Chunk(entries_to_insert, ci)
        IN IF fault THEN
               /\ result' = InsertFailure
               /\ pc' = "done"
               /\ UNCHANGED <<entries, ops, ci>>
           ELSE
               /\ entries' = entries \o chunk
               /\ ops' = Append(ops, Call("insert_entries", Len(chunk)))
               /\ ci' = ci + chunk_size
               /\ IF last < Len(entries_to_insert) THEN
                      /\ pc' = "insert"
                      /\ result' = result
                  ELSE
                      /\ pc' = "done"
                      /\ result' = Success(Len(entries_to_insert), FirstValue(calendar_map),
                                            themes)
    /\ UNCHANGED <<config, race, headers, nextId, runs, req, pi, calendar_map, newly_created_ids,
                   schedule_days, themes, weekly_batches, wi, entries_to_insert, history,
                   via, fnvars>>
    /\ state' = StateAfter(via, pc', result', themes, state)

Run(env) ==
    \/ Begin(env)
    \/ Handle(env)
    \/ ResolveStep(env)
    \/ PlanStep(env)
    \/ GenerateStep(env)
    \/ FinishStep
    \/ InsertStep(env)

\* One run on an empty store, with every kind of payload and reply.
Next == Run(Rich)

Spec == Init /\ [][Next]_vars

\* Up to MaxRuns runs one after another on the same store.
SeqNext == Run(Lean)

SpecSeq == Init /\ [][SeqNext]_vars

\* Long campaigns one after another, whose entries fill one chunk or more:
\* sixty days for two platforms and fifty dates for one given directly,
\* and the handler's default duration for one, the backend naming every
\* weekday and covering every task.
Bulk ==
    [payloads |-> {Payload("u1", <<"instagram", "facebook">>, Jun03, NoEnd, 60, "high"),
                   Payload("u1", <<"instagram">>, Jun03, GivenEnd(Jun03 + 49), 0, "high")},
     rhythm |-> {Says(ListDoc([i \in 1..7 |-> Elem("int", i - 1)]))},
     themes |-> {Raises},
     draws |-> {<<20, 0>>},
     batch |-> {"full"},
     faults |-> BOOLEAN,
     again |-> TRUE,
     states |-> [today \in StartDates |->
                    {HandlerInput("u1", "yes", "sales", "instagram", 0, 0, 0, NoEnd, "high")}]]

BulkNext == Run(Bulk)

SpecBulk == Init /\ [][BulkNext]_vars

\* ------------------------------------------- resolver calls side by side

\* An insert that a unique key on (user_id, platform, calendar_month)
\* turns into a no-op when the key is taken.
InsertRow_unique(hs, row) ==
    IF \E h \in hs : /\ h.user_id = row.user_id
                     /\ h.platform = row.platform
                     /\ h.calendar_month = row.calendar_month
    THEN hs
    ELSE hs \cup {row}

\* supabase.table("social_media_calendars").insert(new_cal).execute(): the
\* table takes the row whatever rows it holds.
InsertRow(hs, row) == hs \cup {row}

\* Lines 307-321 of a call by caller c: without store client it returns
\* (None, False); otherwise the select is executed, and raises or gives
\* the rows it matches now.
ResolveSelect(c) ==
    /\ pc = "idle"
    /\ fn_in = NoCall
    /\ race[c].at = "idle"
    /\ \E u \in {"u1", "u2"}, plat \in PlatformNames, d \in StartDates, fault \in BOOLEAN :
        race' = [race EXCEPT ![c] =
                    IF ~supabase \/ fault
                    THEN [NoResolve EXCEPT !.at = "returned", !.user_id = u,
                                           !.platform = plat, !.date_obj = d]
                    ELSE [NoResolve EXCEPT !.at = "selected", !.user_id = u,
                                           !.platform = plat, !.date_obj = d,
                                           !.seen = Existing(headers, u, plat, d)]]
    /\ UNCHANGED <<config, store, runvars, fnvars>>

\* Lines 323-350 of a call by caller c: the update of the first row the
\* select gave, or the insert of a new row, by what the select saw.
ResolveWrite(c) ==
    /\ race[c].at = "selected"
    /\ IF race[c].seen # {} THEN
           \E first \in race[c].seen :
              /\ headers' = {IF h.id = first.id THEN [h EXCEPT !.frequency = "medium"] ELSE h :
                                h \in headers}
              /\ nextId' = nextId
              /\ race' = [race EXCEPT ![c].at = "returned", ![c].cal_id = first.id,
                                      ![c].created = FALSE]
       ELSE
           /\ headers' = InsertRow(headers, NewHeader(nextId, race[c].user_id,
                                       race[c].platform, race[c].date_obj, "medium"))
           /\ nextId' = nextId + 1
           /\ race' = [race EXCEPT ![c].at = "returned", ![c].cal_id = nextId,
                                   ![c].created = TRUE]
    /\ UNCHANGED <<config, entries, runvars, fnvars>>

\* The one task of caller c's run: its platform on the start date.
RaceTask(c) ==
    [date |-> race[c].date_obj, stage |-> "hook", theme |-> Theme("Week", 1),
     platform |-> race[c].platform, calendar_id |-> race[c].cal_id]

\* newly_created_ids of caller c's run.
RaceCreated(c) == IF race[c].created THEN {race[c].cal_id} ELSE {}

\* Lines 427-506 of the run of caller c, whose platform list named the one
\* platform it resolved: with no header it returns at once; with no entry
\* built it deletes the headers it created; otherwise it inserts its
\* entries.  The delete and the insert are one store call each.
RunEnd(c) ==
    /\ race[c].at = "returned"
    /\ \E built \in BOOLEAN :
        IF race[c].cal_id = NoId THEN
            /\ race' = [race EXCEPT ![c].at = "refused"]
            /\ UNCHANGED <<headers, entries>>
        ELSE IF ~built THEN
            /\ headers' = {h \in headers : h.id \notin RaceCreated(c)}
            /\ race' = [race EXCEPT ![c].at = "failed"]
            /\ UNCHANGED entries
        ELSE
            /\ entries' = Append(entries, EntryOf(RaceTask(c), race[c].user_id, "full"))
            /\ race' = [race EXCEPT ![c].at = "inserted"]
            /\ UNCHANGED headers
    /\ UNCHANGED <<config, nextId, runvars, fnvars>>

RaceNext == \E c \in Callers : ResolveSelect(c) \/ ResolveWrite(c) \/ RunEnd(c)

SpecRace == Init /\ [][RaceNext]_vars

\* ------------------------------------------------- direct calls of helpers

\* Elements of the lists the backend answers a rhythm request with.
RhythmElems ==
    {Elem("int", 0), Elem("int", 3), Elem("int", 7), Elem("int", -1),
     Elem("bool", 1), Elem("str", 0), Elem("float", 2)}

RhythmDocs ==
    {Doc("invalid", <<>>, {}), Doc("scalar", <<>>, {}), EmptyDict,
     DictDoc({[key |-> <<"days", "", 0>>, val |-> "nondict"]})}
    \cup {ListDoc(l) : l \in SeqsUpTo(RhythmElems, MaxList)}

RhythmReplies ==
    {Raises, Reply(FALSE, TRUE, FALSE, FALSE, EmptyDict)}
    \cup {Reply(FALSE, FALSE, fence, chatter, doc) :
            fence \in BOOLEAN, chatter \in BOOLEAN, doc \in RhythmDocs}

FrequencyValues == {"high", "medium", "low", "daily"}

\* generate_smart_rhythm called with any frequency and any reply.
RhythmCall ==
    /\ pc = "idle"
    /\ fn_in = NoCall
    /\ \E f \in FrequencyValues, r \in RhythmReplies :
        /\ fn_in' = [fn |-> "rhythm", frequency |-> f, reply |-> r]
        /\ fn_out' = generate_smart_rhythm(f, openai_client, r)
    /\ UNCHANGED <<config, race, store, runvars>>

\* The header id the store holds for a platform name.
IdOf(plat) == IF Lower(plat) = "instagram" THEN 1 ELSE 2

RECURSIVE MapOf(_, _, _)
\* calendar_map after the loop over platforms, when resolved[i] tells
\* whether the i-th resolution gave an id.
MapOf(platforms, resolved, i) ==
    IF i = 0 THEN <<>>
    ELSE LET before == MapOf(platforms, resolved, i - 1)
         IN IF resolved[i] THEN SetKey(before, platforms[i], IdOf(platforms[i]))
            ELSE before

FallbackThemes == [i \in 1..4 |-> Theme("Week", i)]

\* The theme lists of the slot loop: the fallback of a run of 14 days,
\* and lists of one and of two themes a backend gave.
SlotThemes ==
    {FallbackThemes, <<Theme("ai", 1)>>, <<Theme("ai", 1), Theme("ai", 2)>>}

\* The slot loop of a payload that starts on any weekday and asks for 7
\* or 14 days, by duration_days or by an end_date that many dates on.
SlotsCall ==
    /\ pc = "idle"
    /\ fn_in = NoCall
    /\ \E s \in Jun03..(Jun03 + 6), n \in {7, 14}, by_end \in BOOLEAN, ths \in SlotThemes,
          days \in {<<0, 2, 4>>, <<0, 3>>}, ps \in SeqsUpTo(PlatformNames, MaxPlatforms) :
       \E resolved \in [1..Len(ps) -> BOOLEAN] :
        LET p == Payload("u1", ps, s, IF by_end THEN GivenEnd(s + n - 1) ELSE NoEnd,
                         IF by_end THEN 0 ELSE n, "medium")
            map == MapOf(ps, resolved, Len(ps))
            stageOf == [d \in s..end_date_of(p) |-> "hook"]
        IN /\ map # <<>>
           /\ fn_in' = [fn |-> "slots", payload |-> p, schedule_days |-> days,
                        calendar_map |-> map, themes |-> ths]
           /\ fn_out' = PlanSlots(s, end_date_of(p), days, ths, ps, map, stageOf)
    /\ UNCHANGED <<config, race, store, runvars>>

\* Elements of the lists the backend answers a theme request with.
ThemeElems == {Elem("str", 1), Elem("str", 2), Elem("int", 3)}

ThemeDocs ==
    {Doc("invalid", <<>>, {}), Doc("scalar", <<>>, {}), EmptyDict}
    \cup {ListDoc(l) : l \in SeqsUpTo(ThemeElems, MaxList)}

ThemeReplies ==
    {Raises, Reply(FALSE, TRUE, FALSE, FALSE, EmptyDict)}
    \cup {Reply(FALSE, FALSE, fence, chatter, doc) :
            fence \in BOOLEAN, chatter \in BOOLEAN, doc \in ThemeDocs}

\* Values of num: int(duration // 7) + 2 of a run of up to a week and the
\* smaller counts a direct caller may pass.
WeekCounts == 1..3

\* generate_weekly_themes called with any num and any reply.
ThemesCall ==
    /\ pc = "idle"
    /\ fn_in = NoCall
    /\ \E n \in WeekCounts, r \in ThemeReplies :
        /\ fn_in' = [fn |-> "themes", num |-> n, reply |-> r]
        /\ fn_out' = generate_weekly_themes(n, openai_client, r)
    /\ UNCHANGED <<config, race, store, runvars>>

\* The duration and end date of a request with any of the keys end_date
\* (absent, unparsable or ten days on), duration_days, duration and days,
\* given to the run directly or to the handler, which passes the duration
\* it picked as duration_days.
RangeCall ==
    /\ pc = "idle"
    /\ fn_in = NoCall
    /\ \E by \in {"direct", "handler"}, s \in StartDates,
          dd \in {0, 7}, du \in {0, 14}, dy \in {0, 21} :
       \E e \in {NoEnd, BadEnd, GivenEnd(s + 10)} :
        LET p == handler_payload(HandlerInput("u1", "yes", "sales", "instagram",
                                              dd, du, dy, e, "low"), s)
        IN /\ fn_in' = [fn |-> "range", via |-> by, start_date |-> s, end_date |-> e,
                        duration_days |-> dd, duration |-> du, days |-> dy]
           /\ fn_out' = IF by = "handler"
                        THEN manual_range(p.start_date, p.end_date, p.duration_days, 0, 0)
                        ELSE manual_range(s, e, dd, du, dy)
    /\ UNCHANGED <<config, race, store, runvars>>

\* Goal strings: the four of the table, one of them capitalised, and one
\* the table does not know.
GoalNames == {"brand_awareness", "leads", "sales", "community", "Sales", "growth"}

\* The draws of random.random() and of random.choice, in hundredths.
Draws == 0..99

ChoiceDraws == {0, 50, 99}

\* select_stage_for_day called with any goal list and any draws.
StageCall ==
    /\ pc = "idle"
    /\ fn_in = NoCall
    /\ \E goals \in SeqsUpTo(GoalNames, MaxList), r \in Draws, u \in ChoiceDraws :
        /\ fn_in' = [fn |-> "stage", goals |-> goals, r |-> r, u |-> u]
        /\ fn_out' = select_stage_for_day(goals, r, u)
    /\ UNCHANGED <<config, race, store, runvars>>

\* What a content mapping may hold under a key: an object with the six
\* fields, a non-empty object lacking some, {}, or a value that is no
\* object.
ContentValues == {"full", "partial", "emptyobj", "nondict"}

\* A key of no task.
ForeignKey == <<"linkedin", "hook", Jun03>>

\* The content mappings over the keys of tasks and a foreign key: each key
\* is absent or holds one value.
ContentMaps(tasks) ==
    LET keys == {Key(tasks[i]) : i \in 1..Len(tasks)} \cup {ForeignKey}
    IN UNION {{{[key |-> k, val |-> f[k]] : k \in present} : f \in [present -> ContentValues]} :
              present \in SUBSET keys}

\* Lines 466-488 for one week: the tasks of one date for any platform
\* list, reconciled with any content mapping.
EntriesCall ==
    /\ pc = "idle"
    /\ fn_in = NoCall
    /\ \E ps \in SeqsUpTo(PlatformNames, MaxPlatforms) \ {<<>>} :
        LET tasks == TasksOn(Jun03, "hook", Theme("Week", 1), ps,
                             MapOf(ps, [i \in 1..Len(ps) |-> TRUE], Len(ps)))
        IN \E content_map \in ContentMaps(tasks) :
              /\ fn_in' = [fn |-> "entries", tasks |-> tasks, content_map |-> content_map]
              /\ fn_out' = WeekEntries(tasks, "u1", content_map)
    /\ UNCHANGED <<config, race, store, runvars>>

\* A store with a header for every month of 2024 for two platforms of one
\* user and one platform of another.
YearOfHeaders ==
    {[id |-> m, user_id |-> "u1", platform |-> "instagram",
      calendar_month |-> MonthStart(m), frequency |-> "low"] : m \in 1..12}
    \cup {[id |-> 12 + m, user_id |-> "u1", platform |-> "facebook",
           calendar_month |-> MonthStart(m), frequency |-> "low"] : m \in 1..12}
    \cup {[id |-> 24 + m, user_id |-> "u2", platform |-> "instagram",
           calendar_month |-> MonthStart(m), frequency |-> "low"] : m \in 1..12}

\* Anchor dates: the 1st, the 15th and the 28th to the last day of every
\* month from January to October 2024.
AnchorDates ==
    UNION {{MonthStart(m) + k - 1 : k \in {1, 15} \cup 28..MonthLen[m]} : m \in 1..10}

\* The select of resolve_or_create_calendar on a store that holds a header
\* for every month, or only some of them, for any anchor date.
LookupCall ==
    /\ pc = "idle"
    /\ fn_in = NoCall
    /\ \E u \in {"u1", "u2"}, plat \in PlatformNames, d \in AnchorDates,
          hs \in {YearOfHeaders, {h \in YearOfHeaders : h.id % 2 = 0}} :
        /\ fn_in' = [fn |-> "lookup", user_id |-> u, platform |-> plat, date_obj |-> d,
                     headers |-> hs]
        /\ fn_out' = Existing(hs, u, plat, d)
    /\ UNCHANGED <<config, race, store, runvars>>

FnNext ==
    RhythmCall \/ SlotsCall \/ ThemesCall \/ RangeCall \/ StageCall \/ EntriesCall \/ LookupCall

SpecFn == Init /\ [][FnNext]_vars

\* ------------------------------------------------------------ properties

\* The tasks of a run's weekly_batches, in order.
AllTasks(batches) == Flatten([k \in 1..Len(batches) |-> batches[k].tasks])

HeaderIds(hs) == {h.id : h \in hs}

\* A week's call raised, returned text that is no JSON (or no text), or
\* returned JSON that is no object.
FailedReply(r) == r.raises \/ r.none \/ r.doc.kind # "dict"

\* A week's call returned an object with well-formed content under the
\* key of every task of the week.
CoveringReply(r, tasks) ==
    /\ ~r.raises /\ ~r.none /\ r.doc.kind = "dict"
    /\ \A i \in 1..Len(tasks) : [key |-> Key(tasks[i]), val |-> "full"] \in r.doc.map

\* A week's call gave no content for any of its tasks.
EmptyReply(r, tasks) ==
    \/ FailedReply(r)
    \/ \A i \in 1..Len(tasks) : \A e \in r.doc.map : e.key # Key(tasks[i])

\* Every week was requested and the run has left the loop over the weeks.
WeeksDone ==
    /\ pc \in {"finish", "insert", "done"}
    /\ weekly_batches # <<>>
    /\ Len(replies) = Len(weekly_batches)

SuccessfulEntries ==
    Flatten([k \in 1..Len(weekly_batches) |->
        IF CoveringReply(replies[k], weekly_batches[k].tasks)
        THEN [i \in 1..Len(weekly_batches[k].tasks) |->
                EntryOf(weekly_batches[k].tasks[i], req.user_id, "full")]
        ELSE <<>>])

\* Every week either failed or was covered, and both happened.
FailedAndCovered ==
    /\ WeeksDone
    /\ \A k \in 1..Len(replies) :
          FailedReply(replies[k]) \/ CoveringReply(replies[k], weekly_batches[k].tasks)
    /\ \E k \in 1..Len(replies) : FailedReply(replies[k])
    /\ \E k \in 1..Len(replies) : CoveringReply(replies[k], weekly_batches[k].tasks)

\* C2: when some weeks' calls fail (raise, unparsable, non-object) and the
\* others return a mapping covering their tasks, the failed weeks add no
\* entry and do not abort the run: the entries built are exactly those of
\* the covered weeks, and the run, when its bulk insert completes, has
\* persisted exactly them and reports success with a non-zero post_count.
C2_PartialFailureTolerated ==
    FailedAndCovered
    => /\ entries_to_insert = SuccessfulEntries
       /\ entries_to_insert # <<>>
       /\ result.kind # "error"
       /\ (pc = "done" /\ result.kind # "raised")
            => /\ result.kind = "success"
               /\ result.post_count = Len(SuccessfulEntries)
               /\ result.post_count > 0
               /\ entries = pre_entries \o SuccessfulEntries

\* A two-week run whose first week raised and whose second was covered
\* returned success.
C2_Witness ==
    /\ pc = "done"
    /\ FailedAndCovered
    /\ Len(replies) = 2
    /\ replies[1].raises
    /\ result.kind = "success"

\* The headers of hs stored under one (user_id, platform, month).
HeadersOfKey(hs, user_id, platform, month) ==
    {h \in hs : /\ h.user_id = user_id
                /\ h.platform = Lower(platform)
                /\ h.calendar_month = month}

\* The run has made two resolver calls one after the other with the same
\* user, the same platform and the same anchor date, on a working store:
\* ops[2..3] are the store calls of the first, ops[4..5] of the second.
TwoCallsSameKey ==
    /\ supabase
    /\ pi = 3
    /\ Len(req.platforms) = 2
    /\ Lower(req.platforms[1]) = Lower(req.platforms[2])

\* C3: two resolver calls in sequence with the same (user_id, platform,
\* month of the anchor date), the first made when the store holds no
\* header for that key: the first call performs one insert and reports a
\* new header, the second performs an update and no insert, reports no
\* new header, and acts on the same header id.
C3_ResolverIdempotent ==
    (/\ TwoCallsSameKey
     /\ HeadersOfKey(pre_headers, req.user_id, req.platforms[1],
                     FirstOfMonth(req.start_date)) = {})
    => /\ ops[3].op = "insert"
       /\ ops[5] = Call("update", ops[3].id)
       /\ newly_created_ids = <<ops[3].id>>
       /\ \A i \in 1..Len(calendar_map) : calendar_map[i].id = ops[3].id

\* C4: the header store never holds two headers with the same
\* (user_id, platform, calendar_month), whatever runs came one after
\* another before.
C4_OneHeaderPerKey ==
    \A h1, h2 \in headers :
        (/\ h1.user_id = h2.user_id
         /\ h1.platform = h2.platform
         /\ h1.calendar_month = h2.calendar_month) => h1 = h2

\* A second run has returned after finding and updating a header an
\* earlier run left, and the store holds several headers.
C4_Witness ==
    /\ pc = "done"
    /\ runs = 2
    /\ \E i \in 1..Len(ops) : ops[i].op = "update" /\ ops[i].id \in HeaderIds(pre_headers)
    /\ Cardinality(headers) >= 2

\* C5: every entry of the store has its owning header in the store: a
\* header whose id is the entry's calendar_id and whose user_id and
\* platform are the entry's.
C5_EntryHasOwningHeader ==
    \A i \in 1..Len(entries) :
        \E h \in headers : /\ h.id = entries[i].calendar_id
                           /\ h.user_id = entries[i].user_id
                           /\ h.platform = entries[i].platform

\* A step that takes the header with id out of the store does so for a
\* run that built no entry and that inserted the header itself.
RollbackOnly(id) ==
    /\ entries_to_insert = <<>>
    /\ id \in Range(newly_created_ids)
    /\ id \notin HeaderIds(pre_headers)

\* C6: a header leaves the store only as rollback of the run that created
\* it: the step that removes it belongs to a run with zero entries built
\* and the header was inserted by that run; every delete call a run has
\* issued names an id the run inserted; a header that was there when the
\* run began stays; and while the run has entries built, every header it
\* created stays.
C6_DeleteOnlyOwnRollback ==
    /\ [][\A h \in headers : h.id \notin HeaderIds(headers') => RollbackOnly(h.id)]_vars
    /\ [](/\ \A i \in 1..Len(ops) : ops[i].op = "delete" => RollbackOnly(ops[i].id)
          /\ HeaderIds(pre_headers) \subseteq HeaderIds(headers)
          /\ entries_to_insert # <<>> => Range(newly_created_ids) \subseteq HeaderIds(headers))

\* A run that found one header of an earlier run and created another has
\* built no entry, rolled back and returned.
C6_Witness ==
    /\ pc = "done"
    /\ runs = 2
    /\ entries_to_insert = <<>>
    /\ \E i \in 1..Len(ops) : ops[i].op = "delete"
    /\ \E i \in 1..Len(ops) : ops[i].op = "update"
    /\ pre_headers # {}
    /\ HeaderIds(pre_headers) \subseteq HeaderIds(headers)

\* The dates of the tasks the run planned.
PlannedDates == {AllTasks(weekly_batches)[i].date : i \in 1..Len(AllTasks(weekly_batches))}

\* The run has left the slot loop with some task planned.
Planned == pc \in {"generate", "finish", "insert", "done"} /\ weekly_batches # <<>>

\* The request of the example: start 2024-06-03, duration_days 7, no
\* end_date, one platform, rhythm {0, 3}.
ExampleRequest ==
    /\ req.start_date = Jun03
    /\ req.end_date = NoEnd
    /\ req.duration_days = 7
    /\ Len(req.platforms) = 1
    /\ Range(schedule_days) = {0, 3}

\* C7: the example request plans exactly the two dates 2024-06-03 and
\* 2024-06-06 and, when every week's content covers its tasks, returns
\* post_count 2; and a run given duration_days = D and no end_date plans
\* only dates among the D days that start at start_date.
C7_DurationDaysPlansDDays ==
    Planned
    => /\ ExampleRequest
            => /\ PlannedDates = {Jun03, Jun03 + 3}
               /\ (/\ result.kind = "success"
                   /\ \A k \in 1..Len(replies) :
                         CoveringReply(replies[k], weekly_batches[k].tasks))
                    => result.post_count = 2
       /\ req.end_date = NoEnd
            => \A d \in PlannedDates :
                  req.start_date <= d /\ d < req.start_date + req.duration_days

\* The number of dates on which the planner placed a task.
DatesPlanned(batches) ==
    Cardinality({AllTasks(batches)[i].date : i \in 1..Len(AllTasks(batches))})

\* The number of tasks the planner made for a platform.
TasksOf(batches, plat) ==
    Cardinality({i \in 1..Len(AllTasks(batches)) : AllTasks(batches)[i].platform = plat})

\* The slot planner was called for a request of 14 days, given as
\* duration_days = 14 or as an end_date on the 14th date, with rhythm
\* {0, 2, 4} and platforms named once each.
FourteenDays ==
    /\ fn_in.fn = "slots"
    /\ Range(fn_in.schedule_days) = {0, 2, 4}
    /\ \/ fn_in.payload.end_date = NoEnd /\ fn_in.payload.duration_days = 14
       \/ fn_in.payload.end_date = GivenEnd(fn_in.payload.start_date + 13)
    /\ \A i, j \in 1..Len(fn_in.payload.platforms) :
          fn_in.payload.platforms[i] = fn_in.payload.platforms[j] => i = j

\* C8: for every start weekday, a request of 14 days with rhythm
\* {0, 2, 4} makes the slot planner produce exactly 6 eligible dates and
\* exactly 6 tasks for each platform that has a resolved header.
C8_FourteenDaysSixDates ==
    FourteenDays
    => /\ DatesPlanned(fn_out) = 6
       /\ \A i \in 1..Len(fn_in.calendar_map) :
             TasksOf(fn_out, fn_in.calendar_map[i].plat) = 6

\* The backend is not there, raises, or answers with something that is
\* not a list of integers: no text, text that is no JSON, JSON that is no
\* list, or a list with an element that is no integer.  An element counts
\* as an integer when the code's isinstance(x, int) does: JSON integers
\* and, as Python's bool is an int, JSON true and false.
NoIntegerList(client, r) ==
    \/ ~client
    \/ r.raises
    \/ r.none
    \/ r.doc.kind # "list"
    \/ \E i \in 1..Len(r.doc.items) : r.doc.items[i].t \notin {"int", "bool"}

C10_RhythmInWeekdayRange ==
    fn_in.fn = "rhythm"
    => \A i \in 1..Len(fn_out.value) : fn_out.value[i] \in 0..6

\* C11: for every week_count and every backend response,
\* generate_weekly_themes returns exactly week_count themes, so that the
\* list is never empty and themes[min(week_idx, len(themes) - 1)] is
\* defined.
C11_ThemesHaveWeekCount ==
    fn_in.fn = "themes"
    => /\ Len(fn_out) = fn_in.num
       /\ fn_out # <<>>

\* A theme call took a fallback path: no backend client, a backend error,
\* or a response that is not a list of strings.
ThemeFallbackPath ==
    /\ fn_in.fn = "themes"
    /\ \/ ~openai_client
       \/ fn_in.reply.raises
       \/ fn_in.reply.none
       \/ fn_in.reply.doc.kind # "list"
       \/ \E i \in 1..Len(fn_in.reply.doc.items) : fn_in.reply.doc.items[i].t # "str"

\* C12: on every fallback path generate_weekly_themes(N, ...) returns
\* exactly the N labels "Week 1" .. "Week N" in order.
C12_ThemeFallbackLabels ==
    ThemeFallbackPath
    => fn_out = [i \in 1..fn_in.num |-> [label |-> "Week", n |-> i]]

\* The run was rejected before planning: a direct or handler call without
\* user_id or without platforms, or a handler call without confirmation.
Rejected ==
    /\ pc = "done"
    /\ \/ req.user_id = ""
       \/ req.platforms = <<>>
       \/ via = "handler" /\ state.input.confirm_generation # "yes"

\* C13: a request rejected before planning has no side effect: without
\* user_id or with an empty platform list the run returns an error with
\* post_count 0, without confirmation the handler leaves the cancellation
\* message; and in all three cases no profile read, no header read,
\* insert, update or delete, no entry insert and no backend request was
\* made, and the store is as it was.
C13_RejectionHasNoEffect ==
    Rejected
    => /\ ops = <<>>
       /\ replies = <<>>
       /\ headers = pre_headers /\ entries = pre_entries
       /\ (via = "handler" /\ state.input.confirm_generation # "yes")
            => state = Cancelled(state.input) /\ result = NoResult
       /\ ~(via = "handler" /\ state.input.confirm_generation # "yes")
            => /\ req.user_id = "" => result = Error("Missing user_id")
               /\ (req.user_id # "" /\ req.platforms = <<>>)
                    => result = Error("No platforms provided.")
               /\ result.post_count = 0
               /\ via = "handler" => state.error = result.error

\* After a run that left a header and entries in the store, a second
\* request with a user_id, a working store and no platform was rejected.
C13_Witness ==
    /\ Rejected
    /\ runs = 2
    /\ supabase
    /\ headers # {} /\ entries # <<>>
    /\ req.user_id # "" /\ req.platforms = <<>>
    /\ result.kind = "error"

\* The duration the priority rule gives a request without a parsable
\* end_date: duration_days, else duration, else days, else 30.
PriorityDuration ==
    IF fn_in.duration_days # 0 THEN fn_in.duration_days
    ELSE IF fn_in.duration # 0 THEN fn_in.duration
    ELSE IF fn_in.days # 0 THEN fn_in.days
    ELSE 30

\* C14: the end date of a campaign is the explicit end_date when it
\* parses; otherwise, an unparsable end_date included, it is start_date
\* plus duration_days, else plus duration, else plus days, else plus 30.
C14_EndDatePriority ==
    fn_in.fn = "range"
    => IF fn_in.end_date.kind = "date"
       THEN fn_out = [duration |-> fn_in.end_date.d - fn_in.start_date,
                      end_date |-> fn_in.end_date.d]
       ELSE fn_out = [duration |-> PriorityDuration,
                      end_date |-> fn_in.start_date + PriorityDuration]

\* The platforms of the run for which every resolver call made so far met
\* a store error.
Skipped ==
    {p \in {req.platforms[i] : i \in 1..Len(faulted)} :
        \A i \in 1..Len(faulted) : req.platforms[i] = p => faulted[i]}

\* The entries the run has added to the store.
InsertedEntries == SubSeq(entries, Len(pre_entries) + 1, Len(entries))

\* The loop over platforms is over and no header was resolved.
NoneResolved ==
    /\ pc \notin {"idle", "resolve"}
    /\ req.user_id # "" /\ req.platforms # <<>>
    /\ calendar_map = <<>>

\* C15: a store error inside resolve_or_create_calendar does not leave it
\* as an exception (the loop over platforms never ends by one); a platform
\* whose calls all met the error gets no task and no entry, while every platform
\* with a header gets a task on every planned date; and when no platform
\* resolved a header the run has returned the header error without any
\* backend request and without inserting an entry.
C15_StoreErrorSkipsPlatform ==
    /\ pc \in {"resolve", "plan"} => result.kind = "none"
    /\ \A p \in Skipped :
          /\ ~HasKey(calendar_map, p)
          /\ \A i \in 1..Len(AllTasks(weekly_batches)) : AllTasks(weekly_batches)[i].platform # p
          /\ \A i \in 1..Len(entries_to_insert) : entries_to_insert[i].platform # p
          /\ \A i \in 1..Len(InsertedEntries) : InsertedEntries[i].platform # p
    /\ \A p \in Range(req.platforms) : \A d \in PlannedDates :
          HasKey(calendar_map, p)
          => \E i \in 1..Len(AllTasks(weekly_batches)) :
                /\ AllTasks(weekly_batches)[i].platform = p
                /\ AllTasks(weekly_batches)[i].date = d
    /\ (NoneResolved \/ (pc # "resolve" /\ Skipped # {} /\ Skipped = Range(req.platforms)))
          => /\ pc = "done"
             /\ result = Error("Failed to initialize headers.")
             /\ \A i \in 1..Len(ops) :
                   ops[i].op \notin {"rhythm", "themes", "generate", "insert_entries"}
             /\ replies = <<>>
             /\ entries = pre_entries

\* The store failed for the first of two platforms; the run went on with
\* the second and inserted entries for it.
C15_Witness ==
    /\ pc = "done"
    /\ result.kind = "success"
    /\ Len(req.platforms) = 2
    /\ req.platforms[1] \in Skipped
    /\ req.platforms[2] \notin Skipped
    /\ InsertedEntries # <<>>

\* The run has ended with entries built and not all of them inserted: the
\* insert of the chunk that starts after entry ci raised.
ChunkRaised ==
    /\ pc = "done"
    /\ entries_to_insert # <<>>
    /\ Len(InsertedEntries) < Len(entries_to_insert)

\* C16: when the insert of chunk k raises, the entries of chunks 1..k-1
\* are in the store and no others, no later chunk was attempted, no
\* header was deleted, whether the run created it or found it, and the
\* run has ended by the exception, not by a success result.
C16_ChunkFailureKeepsEarlier ==
    ChunkRaised
    => /\ ci % chunk_size = 0 /\ ci < Len(entries_to_insert)
       /\ InsertedEntries = SubSeq(entries_to_insert, 1, ci)
       /\ Cardinality({i \in 1..Len(ops) : ops[i].op = "insert_entries"}) = ci \div chunk_size
       /\ \A i \in 1..Len(ops) : ops[i].op # "delete"
       /\ HeaderIds(pre_headers) \subseteq HeaderIds(headers)
       /\ \A i \in 1..Len(calendar_map) : calendar_map[i].id \in HeaderIds(headers)
       /\ result = Raised
       /\ via = "handler" => state.error # "" /\ state.result = ""

\* The insert of the second chunk raised after the first chunk of 50
\* entries went in, in a run that had created its headers.
C16_Witness ==
    /\ ChunkRaised
    /\ ci = chunk_size
    /\ Len(InsertedEntries) = chunk_size
    /\ newly_created_ids # <<>>

\* The two calls are for the same (user_id, platform, month).
SameKey ==
    /\ race[1].user_id = race[2].user_id
    /\ Lower(race[1].platform) = Lower(race[2].platform)
    /\ FirstOfMonth(race[1].date_obj) = FirstOfMonth(race[2].date_obj)

\* Both calls have returned after a select that found nothing.
BothMissed ==
    /\ SameKey
    /\ \A c \in Callers : race[c].at = "returned" /\ race[c].cal_id # NoId /\ race[c].seen = {}

\* C17: two resolver calls for the same (user_id, platform, month) that
\* start with no header for the key can interleave so that both lookups
\* find nothing; both then insert: the store holds two headers for the
\* key and both calls have returned was_newly_created = True, each with
\* the id of its own header.
C17_RaceDuplicatesHeader ==
    BothMissed
    => /\ Cardinality(HeadersOfKey(headers, race[1].user_id, race[1].platform,
                                   FirstOfMonth(race[1].date_obj))) = 2
       /\ race[1].created /\ race[2].created
       /\ race[1].cal_id # race[2].cal_id
       /\ {race[1].cal_id, race[2].cal_id} = HeaderIds(headers)

\* The interleaving: both selects ran before either insert, and both
\* calls have returned.
C17_Witness ==
    /\ BothMissed
    /\ race[1].created /\ race[2].created
    /\ Cardinality(headers) = 2

\* A run of create_organic_campaign_manual has ended.
Ended == pc = "done" /\ ~(via = "handler" /\ state.input.confirm_generation # "yes")

\* The run built at least one entry and every chunk's insert completed.
AllInserted == entries_to_insert # <<>> /\ InsertedEntries = entries_to_insert

\* The header id of the first platform, in request order, that has a
\* resolved header.
FirstResolvedId ==
    LET i == CHOOSE i \in 1..Len(req.platforms) :
                /\ HasKey(calendar_map, req.platforms[i])
                /\ \A j \in 1..(i - 1) : ~HasKey(calendar_map, req.platforms[j])
    IN Lookup(calendar_map, req.platforms[i])

\* A success result is returned exactly when entries were built and all
\* inserted, and it carries their number, the theme list and the first
\* resolved platform's header id.
SuccessIffInserted ==
    /\ result.kind = "success" <=> AllInserted
    /\ result.kind = "success"
         => /\ result.post_count = Len(InsertedEntries)
            /\ result.post_count > 0
            /\ result.weekly_themes = themes
            /\ result.calendar_id = FirstResolvedId

\* The result is an error string with post_count 0.
ErrorResult == result.kind = "error" /\ result.error # "" /\ result.post_count = 0

Triples ==
    LET rec == SelectSeq(fn_in.goals, LAMBDA g : goal_weights(Lower(g)) # <<>>)
    IN IF rec = <<>> THEN <<(<<33, 34, 33>>)>>
       ELSE [i \in 1..Len(rec) |-> goal_weights(Lower(rec[i]))]

\* The sum of the k-th components of the triples: their mean times their
\* number.
TripleSum(k) == SeqSum([i \in 1..Len(Triples) |-> Triples[i][k]])

\* C19: select_stage_for_day returns one of the eight stages: one of Top
\* when r < avg_top, one of Middle when avg_top <= r < avg_top + avg_mid,
\* one of Bottom otherwise, the averages being the means of the triples of
\* the recognized goals, or (.33, .34, .33) when none is recognized; every
\* triple and every mean sums to 1.  (In hundredths: r and the means are
\* multiplied by 100, and the comparisons by the number of triples.)
C19_StageByAveragedWeights ==
    fn_in.fn = "stage"
    => LET n == Len(Triples)
           x == fn_in.r * n
       IN /\ \A i \in 1..n : Triples[i][1] + Triples[i][2] + Triples[i][3] = 100
          /\ TripleSum(1) + TripleSum(2) + TripleSum(3) = 100 * n
          /\ fn_out \in {"hook", "pain", "reframe", "mechanism", "proof",
                         "objection", "cta", "retention"}
          /\ fn_out \in {"hook", "pain", "reframe"} <=> x < TripleSum(1)
          /\ fn_out \in {"mechanism", "proof"}
                <=> (TripleSum(1) <= x /\ x < TripleSum(1) + TripleSum(2))
          /\ fn_out \in {"objection", "cta", "retention"}
                <=> x >= TripleSum(1) + TripleSum(2)

\* Two goals, one capitalised and one unknown to the table, with the
\* draw on the boundary avg_top = .15 of the single recognized goal: the
\* stage is one of Middle.
C19_Witness ==
    /\ fn_in.fn = "stage"
    /\ fn_in.goals = <<"Sales", "growth">>
    /\ fn_in.r = 15
    /\ fn_out \in {"mechanism", "proof"}

\* The positions, in the planner's task list, of the tasks dated d.
SlotsOn(d) ==
    {i \in 1..Len(AllTasks(weekly_batches)) : AllTasks(weekly_batches)[i].date = d}

\* The run has left the slot loop without an exception.
SlotLoopDone == pc \in {"generate", "finish", "insert"}

\* What the loop leaves for every date from start_date to end_date: on a
\* date of the rhythm one task for each platform that has a header, none
\* for another platform, and one stage for all of them; on any other date
\* nothing; and nothing outside the range.
SlotsAsStated ==
    LET tasks == AllTasks(weekly_batches)
    IN /\ \A i \in 1..Len(tasks) :
            req.start_date <= tasks[i].date /\ tasks[i].date <= end_date_of(req)
       /\ \A d \in req.start_date..end_date_of(req) :
            IF weekday(d) \in Range(schedule_days)
            THEN /\ \A p \in Range(req.platforms) :
                      HasKey(calendar_map, p)
                      => Cardinality({i \in SlotsOn(d) : tasks[i].platform = p}) = 1
                 /\ \A i \in SlotsOn(d) : HasKey(calendar_map, tasks[i].platform)
                 /\ \A i, j \in SlotsOn(d) : tasks[i].stage = tasks[j].stage
            ELSE SlotsOn(d) = {}

\* C20: the slot planner visits every date from start_date to end_date
\* inclusive; on each date whose weekday is in the rhythm it draws one
\* stage and emits exactly one task per platform with a resolved header,
\* so two tasks of one date carry the same stage; and it emits no task for
\* a date whose weekday is outside the rhythm.
C20_OneTaskPerPlatformAndDate == SlotLoopDone => SlotsAsStated

\* C21: every task dated d is in the batch of week index
\* (d - start_date) div 7 and carries themes[min(week_index, len(themes) - 1)];
\* so all tasks of one week's batch carry one theme, the theme that
\* week's generation request is made with, and the tasks of a batch are in
\* non-decreasing date order.
C21_WeekBatchesAndThemes ==
    fn_in.fn = "slots"
    => \A k \in 1..Len(fn_out) :
         LET tasks == fn_out[k].tasks
             last == Len(fn_in.themes) - 1
         IN \A i \in 1..Len(tasks) :
              LET w == (tasks[i].date - fn_in.payload.start_date) \div 7
              IN /\ fn_out[k].week_idx = w
                 /\ tasks[i].theme = fn_in.themes[(IF w < last THEN w ELSE last) + 1]
                 /\ tasks[i].theme = week_theme(tasks)
                 /\ \A j \in 1..Len(tasks) : tasks[j].theme = tasks[i].theme
                 /\ i > 1 => tasks[i - 1].date <= tasks[i].date

\* Three weeks got tasks and the backend gave two themes: the third week
\* carries the second theme, the first week the first.
C21_Witness ==
    /\ fn_in.fn = "slots"
    /\ Len(fn_in.themes) = 2
    /\ Len(fn_out) = 3
    /\ Len(fn_out[1].tasks) >= 2
    /\ week_theme(fn_out[1].tasks) = fn_in.themes[1]
    /\ week_theme(fn_out[3].tasks) = fn_in.themes[2]

\* The run has left the loop over the weeks, or never entered it.
WeeksLeft == pc \in {"finish", "insert", "done"}

\* The week indices that have a task.
WeeksWithTasks ==
    {(AllTasks(weekly_batches)[i].date - req.start_date) \div 7 :
        i \in 1..Len(AllTasks(weekly_batches))}

\* The tasks of the week with index w, in the planner's order.
TasksOfWeek(w) ==
    SelectSeq(AllTasks(weekly_batches), LAMBDA t : (t.date - req.start_date) \div 7 = w)

\* One request for each week that has a task, none for another week and
\* none twice, each listing the keys of all the tasks of its week.
OneRequestPerWeek ==
    /\ Len(requests) = Cardinality(WeeksWithTasks)
    /\ \A k \in 1..Len(requests) :
          /\ requests[k].week_idx \in WeeksWithTasks
          /\ requests[k].keys =
                [i \in 1..Len(TasksOfWeek(requests[k].week_idx)) |->
                    Key(TasksOfWeek(requests[k].week_idx)[i])]
          /\ \A j \in 1..Len(requests) : requests[j].week_idx = requests[k].week_idx => j = k

\* C22: in one run the number of content requests sent to the backend
\* equals the number of distinct week indices that have a task: each such
\* week gets exactly one request listing the keys of all its tasks, one
\* week after another, and a failed week is not requested again.
C22_OneRequestPerWeek == WeeksLeft => OneRequestPerWeek

\* C22 as the code has it: with a backend client the requests are one per
\* week that has a task, each made once whatever its reply and listing the
\* keys of all the week's tasks, and while the loop runs the weeks before
\* the current one are those requested; without a client no request is
\* sent at all.
C22_OneRequestPerWeekWithClient ==
    /\ WeeksLeft => IF openai_client THEN OneRequestPerWeek ELSE requests = <<>>
    /\ pc = "generate"
       => /\ Len(requests) = (IF openai_client THEN wi - 1 ELSE 0)
          /\ Len(requests) = Len(replies)
          /\ \A k \in 1..Len(requests) :
                requests[k].week_idx = weekly_batches[k].week_idx

\* Two weeks had tasks, the first request raised, and the run has left
\* the loop with two requests sent.
C22_Witness ==
    /\ WeeksLeft
    /\ openai_client
    /\ Cardinality(WeeksWithTasks) = 2
    /\ Len(requests) = 2
    /\ replies[1].raises
    /\ Len(requests[2].keys) >= 2

\* The rows the current run has added to calendar_entries.
RunEntries == SubSeq(entries, Len(pre_entries) + 1, Len(entries))

\* No two tasks of one week's batch have the same key.
KeysDistinct ==
    \A k \in 1..Len(weekly_batches) :
       \A i, j \in 1..Len(weekly_batches[k].tasks) :
          Key(weekly_batches[k].tasks[i]) = Key(weekly_batches[k].tasks[j]) => i = j

\* No two entries the run persisted have the same platform, date and stage.
TriplesDistinct ==
    \A i, j \in 1..Len(RunEntries) :
       (/\ RunEntries[i].platform = RunEntries[j].platform
        /\ RunEntries[i].entry_date = RunEntries[j].entry_date
        /\ RunEntries[i].campaign_phase = RunEntries[j].campaign_phase) => i = j

\* C23: for every accepted request the keys platform_stage_isodate of the
\* tasks of one week's batch are pairwise distinct, so each value of the
\* content mapping belongs to exactly one task, and no two entries the run
\* persisted share (platform, entry_date, stage).
C23_KeysPairwiseDistinct == KeysDistinct /\ TriplesDistinct

\* The value the mapping of the call holds under the key of a task, if any.
Held(task) == {e.val : e \in {x \in fn_in.content_map : x.key = Key(task)}}

\* C24: a task yields exactly one entry if and only if its key is in its
\* week's content mapping with a well-formed object, one carrying topic,
\* format, hook, caption, cta and assets_needed; a task whose key is absent
\* or whose value is no such object yields none.  Every entry built has
\* status 'planned', campaign_phase = intent_type = the task's stage and
\* weekly_theme = content_theme = the task's theme.
C24_EntryIffWellFormedContent ==
    fn_in.fn = "entries"
    => LET tasks == fn_in.tasks
           kept == SelectSeq(tasks, LAMBDA t : Held(t) = {"full"})
       IN /\ Len(fn_out) = Len(kept)
          /\ \A i \in 1..Len(fn_out) :
                /\ fn_out[i].calendar_id = kept[i].calendar_id
                /\ fn_out[i].platform = kept[i].platform
                /\ fn_out[i].entry_date = kept[i].date
                /\ fn_out[i].status = "planned"
                /\ fn_out[i].campaign_phase = kept[i].stage
                /\ fn_out[i].intent_type = kept[i].stage
                /\ fn_out[i].weekly_theme = kept[i].theme
                /\ fn_out[i].content_theme = kept[i].theme

\* The sizes of the bulk-insert calls of the run, in call order.
ChunkSizes ==
    LET calls == SelectSeq(ops, LAMBDA c : c.op = "insert_entries")
    IN [k \in 1..Len(calls) |-> calls[k].id]

\* C25: when no insert fails, the entries are written in consecutive
\* chunks of at most 50: every bulk-insert call carries between 1 and 50
\* entries, all but the last exactly 50, and the chunks in call order make
\* up the list of built entries, each entry inserted once.
C25_ChunksOfFifty ==
    (pc = "done" /\ result.kind = "success")
    => /\ \A k \in 1..Len(ChunkSizes) : 1 <= ChunkSizes[k] /\ ChunkSizes[k] <= 50
       /\ \A k \in 1..(Len(ChunkSizes) - 1) : ChunkSizes[k] = 50
       /\ SeqSum(ChunkSizes) = Len(entries_to_insert)
       /\ RunEntries = entries_to_insert

\* A run wrote 122 entries in three calls.
C25_Witness ==
    /\ pc = "done"
    /\ result.kind = "success"
    /\ Len(entries_to_insert) = 122
    /\ ChunkSizes = <<50, 50, 22>>

\* C26: for every anchor date, days 29, 30 and 31 of a month included,
\* the lookup of resolve_or_create_calendar matches exactly the headers of
\* (user_id, platform) whose calendar_month is in the half-open range from
\* the first day of the anchor's month to the first day of the following
\* month, and never a header of another month.
C26_LookupMatchesAnchorMonth ==
    fn_in.fn = "lookup"
    => fn_out = {h \in fn_in.headers :
                    /\ h.user_id = fn_in.user_id
                    /\ h.platform = Lower(fn_in.platform)
                    /\ MonthStart(MonthOf(fn_in.date_obj)) <= h.calendar_month
                    /\ h.calendar_month < MonthStart(MonthOf(fn_in.date_obj) + 1)}

\* C27: in any interleaving of two runs for the same user, platform and
\* month no entry ever references a deleted header: the rollback of one
\* run never deletes a header the other run resolved and inserts its
\* entries under.
C27_NoEntryUnderDeletedHeader ==
    \A i \in 1..Len(entries) : \E h \in headers : h.id = entries[i].calendar_id

\* The run has returned the generation-failure error.
GenerationFailed == pc = "done" /\ result = Error("AI generation failed.")

\* C28: a run that ends in total generation failure leaves the header
\* store exactly as it was before the run: the headers it created are
\* removed, and every header that already existed has the same campaign
\* fields (name, goal, description, frequency, business context, status,
\* end date) after the run as before it.
C28_FailedRunRestoresHeaders == GenerationFailed => headers = pre_headers

\* The run resolved a header and its slot loop has ended without a task:
\* the range from start_date to end_date is empty or holds no date whose
\* weekday is in the rhythm.
NoTaskPlanned ==
    /\ pc = "done"
    /\ calendar_map # <<>>
    /\ {d \in req.start_date..end_date_of(req) : weekday(d) \in Range(schedule_days)} = {}

HoldsHeaders ==
    \/ pc \in {"plan", "generate", "finish", "insert"}
    \/ pc = "done" /\ result.kind = "success"

\* The headers with the id the run resolved for a platform.
ResolvedFor(plat) == {h \in headers : h.id = Lookup(calendar_map, plat)}

\* C30: a run resolves exactly one header per requested platform,
\* anchored at the month containing start_date, and every entry it inserts
\* for a platform carries that header's id, also when the entry's date is
\* in a later month; the run never creates or looks up a header of
\* another month.
C30_OneHeaderPerPlatformAtStartMonth ==
    HoldsHeaders
    => /\ \A i \in 1..Len(req.platforms) :
             /\ HasKey(calendar_map, req.platforms[i])
             /\ Cardinality(ResolvedFor(req.platforms[i])) = 1
             /\ \A h \in ResolvedFor(req.platforms[i]) :
                   /\ h.user_id = req.user_id
                   /\ h.platform = Lower(req.platforms[i])
                   /\ h.calendar_month = FirstOfMonth(req.start_date)
       /\ \A h \in headers :
             h.id \notin HeaderIds(pre_headers)
             => h.calendar_month = FirstOfMonth(req.start_date)
       /\ \A i \in 1..Len(RunEntries) :
             RunEntries[i].calendar_id = Lookup(calendar_map, RunEntries[i].platform)

====
